---- MODULE Spec2Model ----
(***************************************************************************)
(* Model of the MIRI data-trending plot helpers of jwql:                   *)
(*   plots/plot_functions.py   pol_regression, add_to_plot, add_to_wplot   *)
(*   plots/ice_voltage_tab.py  volt1_3, volt2, volt4, pos_volt, volt_plots *)
(*                                                                         *)
(* A behaviour is one top-level call: add_to_plot or add_to_wplot on one   *)
(* figure, or volt_plots, which issues nine add_to_plot calls on four      *)
(* figures.  The storage (sample tables and the miriAnomaly table) is the  *)
(* environment: a read returns rows or raises.  Python has no handler on   *)
(* any of these paths, so a raised exception ends the top-level call.      *)
(* Tags are modelled as the strings the code builds (str(id) + ' ').       *)
(* Sample values (average, deviation) and the fitted values are not        *)
(* modelled; of the regression only its outcome and length are.            *)
(***************************************************************************)
EXTENDS Integers, Sequences, FiniteSets, TLC

\* ---------------------------------------------------------------- bounds
MaxSamples == 3
MaxId == 2

\* timestamps a sample row can carry, and the start and end times an anomaly
\* row can carry: a sample can lie before, on the start of, inside, on the end
\* of and after an interval, and intervals can overlap or share a start
Times == {10, 20, 25, 30}
AnomalyStarts == {15, 20}
AnomalyEnds == {20, 25}

\* degree handed to pol_regression by add_to_plot
RegRank == 3

\* ---------------------------------------------------------------- state
VARIABLES
    prog,               \* the top-level function called
    miriAnomaly,        \* storage: rows of table miriAnomaly
    ci,                 \* index of the running add_to_plot/add_to_wplot call
    pc,                 \* position inside the running call
    outcome,            \* "running", "returned" or "raised"
    exc,                \* the exception that ended the call, or "none"
    temp,               \* local: start_time/timestamp column of the sample rows
    reg,                \* local: length of the 'reg' column, -1 before it exists
    anomaly_table,      \* local: result of the anomaly query
    list_anomaly_order, \* local: tag string per sample
    figures,            \* per figure, the series added so far
    reads,              \* the storage reads issued so far, in order
    tab                 \* the value volt_plots returned, or "none"

vars == <<prog, miriAnomaly, ci, pc, outcome, exc, temp, reg, anomaly_table,
          list_anomaly_order, figures, reads, tab>>

locals == <<temp, reg, anomaly_table, list_anomaly_order>>

\* ------------------------------------------------------------ call lists
\* volt_plots calls volt1_3, volt2, volt4, pos_volt in this order; each adds
\* its mnemonics to its own figure (plot1..plot4 of the grid).
VoltPlotsCalls ==
    << [fig |-> 1, mnemonic |-> "IMIR_HK_ICE_SEC_VOLT1"],
       [fig |-> 1, mnemonic |-> "IMIR_HK_ICE_SEC_VOLT3"],
       [fig |-> 2, mnemonic |-> "IMIR_HK_ICE_SEC_VOLT2"],
       [fig |-> 3, mnemonic |-> "IMIR_HK_ICE_SEC_VOLT4_IDLE"],
       [fig |-> 3, mnemonic |-> "IMIR_HK_ICE_SEC_VOLT4_HV_ON"],
       [fig |-> 4, mnemonic |-> "IMIR_HK_FW_POS_VOLT"],
       [fig |-> 4, mnemonic |-> "IMIR_HK_GW14_POS_VOLT"],
       [fig |-> 4, mnemonic |-> "IMIR_HK_GW23_POS_VOLT"],
       [fig |-> 4, mnemonic |-> "IMIR_HK_CCC_POS_VOLT"] >>

\* a direct call of add_to_plot / add_to_wplot: one mnemonic on one figure
DirectCalls == << [fig |-> 4, mnemonic |-> "IMIR_HK_FW_POS_VOLT"] >>

Calls == IF prog = "volt_plots" THEN VoltPlotsCalls ELSE DirectCalls

Figs == 1..4

\* labels the rows of miriAnomaly carry in the plot column
Labels == {"IMIR_HK_FW_POS_VOLT", "IMIR_HK_GW14_POS_VOLT"}

\* --------------------------------------------------------------- storage
\* rows of a sample table, as "ORDER BY start_time" returns them
SortedRows(n) ==
    { s \in UNION { [1..k -> Times] : k \in 0..n } :
        \A i \in 1..(Len(s) - 1) : s[i] <= s[i + 1] }

SampleRows == IF prog = "volt_plots" THEN {<<>>, <<20>>} ELSE SortedRows(MaxSamples)

AnomalyAttrs ==
    [start_time : AnomalyStarts, end_time : AnomalyEnds, plot : Labels]

\* the id column identifies a row: a table is a set of rows with distinct ids
AnomalyTables ==
    UNION { { { [id |-> i, start_time |-> f[i].start_time,
                 end_time |-> f[i].end_time, plot |-> f[i].plot] : i \in ids } :
              f \in [ids -> AnomalyAttrs] } :
            ids \in SUBSET (1..MaxId) }

\* "SELECT * FROM miriAnomaly WHERE plot = '<mnemonic>' ORDER BY start_time":
\* the matching rows in ascending start_time; rows with equal start_time come
\* in an order SQL leaves open.
AnomalyQuery_nofilter(table, mnemonic) ==
    LET m == table
    IN  { s \in [1..Cardinality(m) -> m] :
            /\ \A i, j \in 1..Cardinality(m) : i # j => s[i] # s[j]
            /\ \A i \in 1..(Cardinality(m) - 1) : s[i].start_time <= s[i + 1].start_time }

AnomalyQuery(table, mnemonic) ==
    LET m == { r \in table : r.plot = mnemonic }
    IN  { s \in [1..Cardinality(m) -> m] :
            /\ \A i, j \in 1..Cardinality(m) : i # j => s[i] # s[j]
            /\ \A i \in 1..(Cardinality(m) - 1) : s[i].start_time <= s[i + 1].start_time }

\* ------------------------------------------------------------ regression
\* pol_regression(x, y, rank): np.polyfit raises TypeError on an empty x;
\* on a rank-deficient system (fewer distinct x than rank+1) it only emits a
\* RankWarning and returns coefficients, so y_poly = f(x) has len(x) values.
pol_regression(x, rank) ==
    IF Len(x) = 0
    THEN [raised |-> TRUE, n |-> 0, RankWarning |-> FALSE]
    ELSE [raised |-> FALSE, n |-> Len(x),
          RankWarning |-> Cardinality({ x[i] : i \in 1..Len(x) }) < rank + 1]

\* ------------------------------------------------------ tagging, add_to_plot
\* list_anomaly_order = ['' for each sample]
EmptyOrder(n) == [i \in 1..n |-> ""]

\* inner loop: one anomaly against every sample
PopulateOne_strict(order, times, a) ==
    [id \in 1..Len(order) |->
        IF a.start_time <= times[id] /\ times[id] < a.end_time
        THEN order[id] \o ToString(a.id) \o " "
        ELSE order[id]]

PopulateOne_prepend(order, times, a) ==
    [id \in 1..Len(order) |->
        IF a.start_time <= times[id] /\ times[id] <= a.end_time
        THEN ToString(a.id) \o " " \o order[id]
        ELSE order[id]]

PopulateOne_lead(order, times, a) ==
    [id \in 1..Len(order) |->
        IF a.start_time <= times[id] /\ times[id] <= a.end_time
        THEN order[id] \o " " \o ToString(a.id)
        ELSE order[id]]

PopulateOne(order, times, a) ==
    [id \in 1..Len(order) |->
        IF a.start_time <= times[id] /\ times[id] <= a.end_time
        THEN order[id] \o ToString(a.id) \o " "
        ELSE order[id]]

\* outer loop: the anomalies in query order
RECURSIVE PopulateFrom(_, _, _, _)
PopulateFrom(order, times, anoms, i) ==
    IF i > Len(anoms)
    THEN order
    ELSE PopulateFrom(PopulateOne(order, times, anoms[i]), times, anoms, i + 1)

\* "get rid of empty strings"
ReplaceEmpty_never(order) ==
    [id \in 1..Len(order) |-> IF Len(order[id]) < 0 THEN "NaN" ELSE order[id]]

ReplaceEmpty_noanomaly(order) ==
    [id \in 1..Len(order) |-> IF Len(order[id]) < 1 THEN "no anomaly" ELSE order[id]]

ReplaceEmpty(order) ==
    [id \in 1..Len(order) |-> IF Len(order[id]) < 1 THEN "NaN" ELSE order[id]]

\* ----------------------------------------------------- tagging, add_to_wplot
WEmptyOrder(n) == [i \in 1..n |-> ""]

WPopulateOne_open(order, times, a) ==
    [id \in 1..Len(order) |->
        IF a.start_time < times[id] /\ times[id] <= a.end_time
        THEN order[id] \o ToString(a.id) \o " "
        ELSE order[id]]

WPopulateOne(order, times, a) ==
    [id \in 1..Len(order) |->
        IF a.start_time <= times[id] /\ times[id] <= a.end_time
        THEN order[id] \o ToString(a.id) \o " "
        ELSE order[id]]

RECURSIVE WPopulateFrom(_, _, _, _)
WPopulateFrom(order, times, anoms, i) ==
    IF i > Len(anoms)
    THEN order
    ELSE WPopulateFrom(WPopulateOne(order, times, anoms[i]), times, anoms, i + 1)

WReplaceEmpty(order) ==
    [id \in 1..Len(order) |-> IF Len(order[id]) < 1 THEN "NaN" ELSE order[id]]

\* ------------------------------------------------------------------ Init
NoLocals ==
    /\ temp = <<>>
    /\ reg = -1
    /\ anomaly_table = <<>>
    /\ list_anomaly_order = <<>>

Init ==
    /\ prog \in {"add_to_plot", "add_to_wplot", "volt_plots"}
    /\ miriAnomaly \in AnomalyTables
    /\ ci = 1
    /\ pc = "sample_query"
    /\ outcome = "running"
    /\ exc = "none"
    /\ NoLocals
    /\ figures = [f \in Figs |-> <<>>]
    /\ reads = <<>>
    /\ tab = "none"

\* --------------------------------------------------------------- helpers
Running(fn, at) ==
    /\ outcome = "running"
    /\ pc = at
    /\ IF fn = "add_to_wplot" THEN prog = "add_to_wplot" ELSE prog # "add_to_wplot"

Mnemonic == Calls[ci].mnemonic

\* an exception leaves add_to_plot, the plot function and volt_plots: none of
\* them has a handler
Raise(e) ==
    /\ outcome' = "raised"
    /\ exc' = e
    /\ UNCHANGED <<prog, miriAnomaly, ci, pc, figures, tab>>

Step(next) ==
    /\ pc' = next
    /\ UNCHANGED <<prog, miriAnomaly, ci, outcome, exc, figures, tab>>

\* ----------------------------------------------------- add_to_plot steps
SampleQuery ==
    /\ Running("add_to_plot", "sample_query")
    /\ \E rows \in SampleRows : temp' = rows
    /\ reads' = Append(reads, [table |-> Mnemonic, ok |-> TRUE])
    /\ Step("regression")
    /\ UNCHANGED <<reg, anomaly_table, list_anomaly_order>>

SampleQueryFails ==
    /\ Running("add_to_plot", "sample_query")
    /\ reads' = Append(reads, [table |-> Mnemonic, ok |-> FALSE])
    /\ Raise("read_error")
    /\ UNCHANGED locals

RegressionReturns ==
    /\ Running("add_to_plot", "regression")
    /\ ~pol_regression(temp, RegRank).raised
    /\ reg' = pol_regression(temp, RegRank).n
    /\ Step("anomaly_query")
    /\ UNCHANGED <<temp, anomaly_table, list_anomaly_order, reads>>

RegressionRaises ==
    /\ Running("add_to_plot", "regression")
    /\ pol_regression(temp, RegRank).raised
    /\ Raise("TypeError")
    /\ UNCHANGED <<locals, reads>>

AnomalyQueryReturns ==
    /\ Running("add_to_plot", "anomaly_query")
    /\ \E rows \in AnomalyQuery(miriAnomaly, Mnemonic) : anomaly_table' = rows
    /\ reads' = Append(reads, [table |-> "miriAnomaly", ok |-> TRUE])
    /\ Step("populate")
    /\ UNCHANGED <<temp, reg, list_anomaly_order>>

AnomalyQueryFails_swallow ==
    /\ Running("add_to_plot", "anomaly_query")
    /\ anomaly_table' = <<>>
    /\ reads' = Append(reads, [table |-> "miriAnomaly", ok |-> FALSE])
    /\ Step("populate")
    /\ UNCHANGED <<temp, reg, list_anomaly_order>>

AnomalyQueryFails ==
    /\ Running("add_to_plot", "anomaly_query")
    /\ reads' = Append(reads, [table |-> "miriAnomaly", ok |-> FALSE])
    /\ Raise("read_error")
    /\ UNCHANGED locals

Populate ==
    /\ Running("add_to_plot", "populate")
    /\ list_anomaly_order' = PopulateFrom(EmptyOrder(Len(temp)), temp, anomaly_table, 1)
    /\ Step("sentinel")
    /\ UNCHANGED <<temp, reg, anomaly_table, reads>>

Sentinel ==
    /\ Running("add_to_plot", "sentinel")
    /\ list_anomaly_order' = ReplaceEmpty(list_anomaly_order)
    /\ Step("plot")
    /\ UNCHANGED <<temp, reg, anomaly_table, reads>>

\* the series handed to the figure, and what follows the return of the call
Series == [name |-> Mnemonic, start_time |-> temp, amomaly |-> list_anomaly_order]

Return ==
    /\ figures' = [figures EXCEPT ![Calls[ci].fig] = Append(@, Series)]
    /\ temp' = <<>>
    /\ reg' = -1
    /\ anomaly_table' = <<>>
    /\ list_anomaly_order' = <<>>
    /\ IF ci < Len(Calls)
       THEN /\ ci' = ci + 1
            /\ pc' = "sample_query"
            /\ UNCHANGED outcome
       ELSE IF prog = "volt_plots"
       THEN /\ pc' = "data_table"
            /\ UNCHANGED <<ci, outcome>>
       ELSE /\ pc' = "done"
            /\ outcome' = "returned"
            /\ UNCHANGED ci
    /\ UNCHANGED <<prog, miriAnomaly, exc, reads, tab>>

Plot ==
    /\ Running("add_to_plot", "plot")
    /\ Return

\* ---------------------------------------------------- add_to_wplot steps
WSampleQuery ==
    /\ Running("add_to_wplot", "sample_query")
    /\ \E rows \in SampleRows : temp' = rows
    /\ reads' = Append(reads, [table |-> Mnemonic, ok |-> TRUE])
    /\ Step("anomaly_query")
    /\ UNCHANGED <<reg, anomaly_table, list_anomaly_order>>

WSampleQueryFails ==
    /\ Running("add_to_wplot", "sample_query")
    /\ reads' = Append(reads, [table |-> Mnemonic, ok |-> FALSE])
    /\ Raise("read_error")
    /\ UNCHANGED locals

WAnomalyQueryReturns ==
    /\ Running("add_to_wplot", "anomaly_query")
    /\ \E rows \in AnomalyQuery(miriAnomaly, Mnemonic) : anomaly_table' = rows
    /\ reads' = Append(reads, [table |-> "miriAnomaly", ok |-> TRUE])
    /\ Step("populate")
    /\ UNCHANGED <<temp, reg, list_anomaly_order>>

WAnomalyQueryFails ==
    /\ Running("add_to_wplot", "anomaly_query")
    /\ reads' = Append(reads, [table |-> "miriAnomaly", ok |-> FALSE])
    /\ Raise("read_error")
    /\ UNCHANGED locals

WPopulate ==
    /\ Running("add_to_wplot", "populate")
    /\ list_anomaly_order' = WPopulateFrom(WEmptyOrder(Len(temp)), temp, anomaly_table, 1)
    /\ Step("sentinel")
    /\ UNCHANGED <<temp, reg, anomaly_table, reads>>

WSentinel ==
    /\ Running("add_to_wplot", "sentinel")
    /\ list_anomaly_order' = WReplaceEmpty(list_anomaly_order)
    /\ Step("plot")
    /\ UNCHANGED <<temp, reg, anomaly_table, reads>>

WPlot ==
    /\ Running("add_to_wplot", "plot")
    /\ Return

\* ------------------------------------------------------ volt_plots steps
\* tabObjects.anomaly_table(conn, ...) reads the storage once more
DataTable ==
    /\ Running("add_to_plot", "data_table")
    /\ reads' = Append(reads, [table |-> "miriAnomaly", ok |-> TRUE])
    /\ Step("layout")
    /\ UNCHANGED locals

DataTableFails ==
    /\ Running("add_to_plot", "data_table")
    /\ reads' = Append(reads, [table |-> "miriAnomaly", ok |-> FALSE])
    /\ Raise("read_error")
    /\ UNCHANGED locals

\* gridplot, Column, Panel, return tab
Layout ==
    /\ Running("add_to_plot", "layout")
    /\ tab' = "ICE VOLTAGE"
    /\ pc' = "done"
    /\ outcome' = "returned"
    /\ UNCHANGED <<prog, miriAnomaly, ci, exc, figures, reads, locals>>

Next ==
    \/ SampleQuery
    \/ SampleQueryFails
    \/ RegressionReturns
    \/ RegressionRaises
    \/ AnomalyQueryReturns
    \/ AnomalyQueryFails
    \/ Populate
    \/ Sentinel
    \/ Plot
    \/ WSampleQuery
    \/ WSampleQueryFails
    \/ WAnomalyQueryReturns
    \/ WAnomalyQueryFails
    \/ WPopulate
    \/ WSentinel
    \/ WPlot
    \/ DataTable
    \/ DataTableFails
    \/ Layout

Spec == Init /\ [][Next]_vars

\* ======================================================== properties
\* helpers of the properties: the tokens of a tag, split at single spaces
RECURSIVE TokFrom(_, _, _)
TokFrom(s, i, cur) ==
    IF i > Len(s)
    THEN (IF cur = "" THEN <<>> ELSE <<cur>>)
    ELSE IF SubSeq(s, i, i) = " "
         THEN (IF cur = "" THEN <<>> ELSE <<cur>>) \o TokFrom(s, i + 1, "")
         ELSE TokFrom(s, i + 1, cur \o SubSeq(s, i, i))

TokenSeq(s) == TokFrom(s, 1, "")

TokenSet(s) == { TokenSeq(s)[k] : k \in 1..Len(TokenSeq(s)) }

Contains(a, t) == a.start_time <= t /\ t <= a.end_time

\* the id strings of the fetched anomalies that contain sample i, in scan order
MatchIds(i) ==
    LET Test(a) == Contains(a, temp[i])
        m == SelectSeq(anomaly_table, Test)
    IN  [k \in 1..Len(m) |-> ToString(m[k].id)]

RECURSIVE JoinSpace(_)
JoinSpace(ids) ==
    IF Len(ids) = 0 THEN ""
    ELSE IF Len(ids) = 1 THEN ids[1]
    ELSE ids[1] \o " " \o JoinSpace(Tail(ids))

RECURSIVE EachThenSpace(_)
EachThenSpace(ids) ==
    IF Len(ids) = 0 THEN "" ELSE ids[1] \o " " \o EachThenSpace(Tail(ids))

InAddToPlot == prog # "add_to_wplot" /\ outcome = "running"

Populated == pc \in {"sentinel", "plot"}

Samples == 1..Len(temp)

\* C1: in add_to_plot, once the tagging loop has run, the tag of sample S
\* names the id of a fetched anomaly record I if and only if
\* I.start_time <= S.start_time <= I.end_time, both bounds inclusive.
C1_TaggedIffInside ==
    (InAddToPlot /\ Populated) =>
        \A i \in Samples : \A k \in 1..Len(anomaly_table) :
            (ToString(anomaly_table[k].id) \in TokenSet(list_anomaly_order[i]))
                <=> Contains(anomaly_table[k], temp[i])

\* a sample exactly on the end of one of two overlapping intervals, tagged
\* with both, next to a sample outside both
C1_Witness ==
    /\ InAddToPlot /\ pc = "plot"
    /\ Len(anomaly_table) = 2
    /\ anomaly_table[1].start_time < anomaly_table[2].start_time
    /\ \E i \in Samples :
        /\ temp[i] = anomaly_table[1].end_time
        /\ Len(MatchIds(i)) = 2
        /\ Len(TokenSeq(list_anomaly_order[i])) = 2
    /\ \E j \in Samples : Len(MatchIds(j)) = 0

\* C2: after the tagging and sentinel loops of add_to_plot a tag is the
\* sentinel exactly when the sample lies in no fetched interval, and no tag
\* is left empty.
C2_SentinelIffNone ==
    (InAddToPlot /\ pc = "plot") =>
        \A i \in Samples :
            /\ (list_anomaly_order[i] = "NaN") <=> (Len(MatchIds(i)) = 0)
            /\ list_anomaly_order[i] # ""

C2_Witness ==
    /\ InAddToPlot /\ pc = "plot"
    /\ Len(anomaly_table) >= 1
    /\ \E i \in Samples : list_anomaly_order[i] = "NaN"
    /\ \E j \in Samples : list_anomaly_order[j] # "NaN" /\ Len(MatchIds(j)) >= 1

\* C3 as stated: a sample in k >= 1 intervals gets the matching ids joined by
\* single spaces, with no leading and no trailing separator.
C3_JoinedNoTrailing ==
    (InAddToPlot /\ pc = "plot") =>
        \A i \in Samples :
            Len(MatchIds(i)) >= 1 => list_anomaly_order[i] = JoinSpace(MatchIds(i))

\* C3 amended: a sample in k >= 1 intervals gets the matching ids in scan
\* order, each followed by one space: no leading separator, one trailing
\* space; ids 1 and 2 both covering timestamp 20 give "1 2 ".
C3_EachIdThenSpace ==
    (InAddToPlot /\ pc = "plot") =>
        \A i \in Samples :
            /\ Len(MatchIds(i)) >= 1 =>
                   list_anomaly_order[i] = EachThenSpace(MatchIds(i))
            /\ (temp[i] = 20 /\ MatchIds(i) = <<"1", "2">>) =>
                   list_anomaly_order[i] = "1 2 "

C3_Witness ==
    /\ InAddToPlot /\ pc = "plot"
    /\ \E i \in Samples :
        /\ temp[i] = 20
        /\ MatchIds(i) = <<"1", "2">>
        /\ list_anomaly_order[i] = "1 2 "

\* C4: when the sample query of add_to_plot returned zero rows, the call
\* does not raise.
C4_EmptyDoesNotRaise ==
    (prog = "add_to_plot" /\ pc = "regression" /\ Len(temp) = 0) =>
        outcome # "raised"

\* C5: pol_regression called from add_to_plot with 1 to RegRank samples
\* never returns fitted values.
C5_DegenerateNeverFits ==
    ~ ( /\ prog # "add_to_wplot"
        /\ reg # -1
        /\ Len(temp) >= 1
        /\ Len(temp) < RegRank + 1 )

\* C6: in volt_plots a failed storage read propagates: the call has raised
\* with that failure, the failed read is the last read issued and the only
\* failed one, no tab was returned, and the mnemonic whose sample or anomaly
\* query failed has no series in any figure.
C6_ReadFailurePropagates ==
    (prog = "volt_plots" /\ \E k \in 1..Len(reads) : ~reads[k].ok) =>
        /\ outcome = "raised"
        /\ exc = "read_error"
        /\ tab = "none"
        /\ \A k \in 1..Len(reads) : reads[k].ok <=> k < Len(reads)
        /\ pc \in {"sample_query", "anomaly_query"} =>
              \A f \in Figs : \A k \in 1..Len(figures[f]) :
                  figures[f][k].name # Calls[ci].mnemonic

\* the anomaly query of the seventh mnemonic failed after six series were added
C6_Witness ==
    /\ prog = "volt_plots"
    /\ outcome = "raised"
    /\ pc = "anomaly_query"
    /\ ci = 7
    /\ ~reads[Len(reads)].ok
    /\ Len(figures[4]) = 1
    /\ Len(figures[1]) = 2

OneAnomaly_1_15_25 ==
    /\ Len(anomaly_table) = 1
    /\ anomaly_table[1].id = 1
    /\ anomaly_table[1].start_time = 15
    /\ anomaly_table[1].end_time = 25

\* C7 as stated: samples at 10, 20, 30 and one anomaly (id 1, 15..25) give
\* the anomaly column ("no anomaly", "1", "no anomaly").
C7_NoAnomalyText ==
    (InAddToPlot /\ pc = "plot" /\ temp = <<10, 20, 30>> /\ OneAnomaly_1_15_25) =>
        list_anomaly_order = <<"no anomaly", "1", "no anomaly">>

\* C7 amended: samples at 10, 20, 30 and one anomaly (id 1, 15..25) give the
\* anomaly column ("NaN", "1 ", "NaN").
C7_NaNColumn ==
    (InAddToPlot /\ pc = "plot" /\ temp = <<10, 20, 30>> /\ OneAnomaly_1_15_25) =>
        list_anomaly_order = <<"NaN", "1 ", "NaN">>

C7_Witness ==
    /\ prog = "add_to_plot" /\ outcome = "running" /\ pc = "plot"
    /\ temp = <<10, 20, 30>>
    /\ OneAnomaly_1_15_25
    /\ reg = 3

IdTokens(s) == IF s = "NaN" THEN <<>> ELSE TokenSeq(s)

\* C8: the anomaly query result is in ascending start_time, the ids in a tag
\* are the matching ids in that scan order, each once, and two ids keep their
\* relative order in every tag that holds both.
C8_ScanOrder ==
    (InAddToPlot /\ Populated) =>
        /\ \A k \in 1..(Len(anomaly_table) - 1) :
              anomaly_table[k].start_time <= anomaly_table[k + 1].start_time
        /\ \A i \in Samples : IdTokens(list_anomaly_order[i]) = MatchIds(i)
        /\ \A i, j \in Samples :
              LET ti == IdTokens(list_anomaly_order[i])
                  tj == IdTokens(list_anomaly_order[j])
              IN  \A p, q \in 1..Len(ti) : \A p2, q2 \in 1..Len(tj) :
                      (ti[p] = tj[p2] /\ ti[q] = tj[q2]) => (p < q <=> p2 < q2)

\* the later-starting anomaly has the smaller id: the tag is in scan order,
\* not in id order, in two samples
C8_Witness ==
    /\ InAddToPlot /\ pc = "plot"
    /\ Len(anomaly_table) = 2
    /\ anomaly_table[1].id = 2
    /\ anomaly_table[1].start_time < anomaly_table[2].start_time
    /\ \E i, j \in Samples :
        /\ i # j
        /\ temp[i] # temp[j]
        /\ list_anomaly_order[i] = "2 1 "
        /\ list_anomaly_order[j] = "2 1 "

SeriesTagsOwnLabel(s) ==
    \A i \in 1..Len(s.start_time) :
        { t \in TokenSet(s.amomaly[i]) : t # "NaN" }
            = { ToString(r.id) : r \in { q \in miriAnomaly :
                                           q.plot = s.name /\ Contains(q, s.start_time[i]) } }

FiguresOnlyGrow ==
    \A f \in Figs :
        /\ Len(figures[f]) <= Len(figures'[f])
        /\ SubSeq(figures'[f], 1, Len(figures[f])) = figures[f]

\* C9: every series on a figure carries, per sample, exactly the ids of the
\* anomaly records labeled for its own mnemonic that contain the sample, never
\* an id of a record labeled for another mnemonic; and every step leaves the
\* series added earlier unchanged.
C9_PerMnemonic ==
    /\ [](\A f \in Figs : \A k \in 1..Len(figures[f]) : SeriesTagsOwnLabel(figures[f][k]))
    /\ [][FiguresOnlyGrow]_vars

\* pos_volt's figure holds the FW and the GW14 series, each tagged with its
\* own anomaly only, while both anomalies contain the sample
C9_Witness ==
    /\ prog = "volt_plots"
    /\ Len(figures[4]) >= 2
    /\ figures[4][1].amomaly = <<"1 ">>
    /\ figures[4][2].amomaly = <<"2 ">>
    /\ \A r \in miriAnomaly : Contains(r, 20)
    /\ Cardinality(miriAnomaly) = 2

\* C10: on the same samples and the same anomaly records the tagging of
\* add_to_wplot and the tagging of add_to_plot give the same list of tags,
\* one per sample, in sample order.
C10_SameTagging ==
    (outcome = "running" /\ pc = "plot") =>
        /\ Len(list_anomaly_order) = Len(temp)
        /\ list_anomaly_order =
             IF prog = "add_to_wplot"
             THEN ReplaceEmpty(PopulateFrom(EmptyOrder(Len(temp)), temp, anomaly_table, 1))
             ELSE WReplaceEmpty(WPopulateFrom(WEmptyOrder(Len(temp)), temp, anomaly_table, 1))

C10_Witness ==
    /\ prog = "add_to_wplot" /\ outcome = "running" /\ pc = "plot"
    /\ Len(temp) = MaxSamples
    /\ \E i \in Samples : Len(TokenSeq(list_anomaly_order[i])) = 2
    /\ \E j \in Samples : list_anomaly_order[j] = "NaN"
====
